---- MODULE Spec2Model ----
(***************************************************************************)
(* Model of streamlit_app.py: the e-commerce dashboard script.             *)
(*                                                                         *)
(* load_data() runs once (st.cache_data); every widget change re-runs the  *)
(* whole script: filter, key metrics, then the charts of the active tab.   *)
(* Timestamps are whole hours since an epoch, calendar dates are whole     *)
(* days (timestamp \div 24). Floats are kept exact as fractions; NaN and   *)
(* "never assigned in this run" are separate values of the same shape.     *)
(***************************************************************************)
EXTENDS Integers, Sequences, FiniteSets, TLC

VARIABLES df, customer_df, clv_df,
          tab, selected_segment, date_range, product_category, churn_threshold,
          filtered_df, filtered_customer_df,
          total_customers, total_revenue, avg_order_value, churn_rate,
          top_category, heatmap_data, treemap_data,
          error

vars == <<df, customer_df, clv_df,
          tab, selected_segment, date_range, product_category, churn_threshold,
          filtered_df, filtered_customer_df,
          total_customers, total_revenue, avg_order_value, churn_rate,
          top_category, heatmap_data, treemap_data,
          error>>

(***************************************************************************)
(* Bounded inputs.                                                         *)
(***************************************************************************)
MaxRows == 2

CustomerIds == {"a", "b"}
CategoryValues == {"electronics", "furniture_decor"}
\* Hours since the epoch: day 0 at 12:00 and day 200 at 00:00.
Timestamps == {12, 4800}
\* Every order of a customer is of the same amount.
PaymentOf == [c \in CustomerIds |-> IF c = "a" THEN 3 ELSE 7]

\* What the widgets can be set to.
DateRanges == {<<0, 200>>, <<0, 1>>, <<200, 200>>, <<200, 0>>}
ThresholdChoices == {180, 199}
CategorySelections == {{}, {"electronics"}, {"furniture_decor"},
                       {"electronics", "furniture_decor", "health_beauty"}}
SegmentSelections == {{}, {"Loyal Customers"}}
Tabs == {"Customer Insights", "Product Analysis", "Economic Trends"}

\* Lexicographic order of the strings the model uses (pandas sorts group keys).
NameOrder == <<"a", "b", "electronics", "furniture_decor", "health_beauty">>

RawRows == {[customer_unique_id |-> c,
             product_category |-> k,
             order_purchase_timestamp |-> t,
             payment_value |-> PaymentOf[c]] :
                c \in CustomerIds, k \in CategoryValues, t \in Timestamps}

Datasets == UNION {[1..n -> RawRows] : n \in 1..MaxRows}

(***************************************************************************)
(* Values: float64 cells, NaN, and names a run never bound.                *)
(***************************************************************************)
Float(n, d) == [kind |-> "float", num |-> n, den |-> d]
NaN == [kind |-> "nan", num |-> 0, den |-> 1]
Unset == [kind |-> "unset", num |-> 0, den |-> 1]
UnsetName == "<unset>"

(***************************************************************************)
(* Helpers: sorting and folding.                                           *)
(***************************************************************************)
Rank(s) == CHOOSE i \in 1..Len(NameOrder) : NameOrder[i] = s

MinInt(S) == CHOOSE x \in S : \A y \in S : x <= y
MaxInt(S) == CHOOSE x \in S : \A y \in S : x >= y
MinName(S) == CHOOSE x \in S : \A y \in S : Rank(x) <= Rank(y)

RECURSIVE SortInts(_)
SortInts(S) == IF S = {} THEN <<>>
               ELSE <<MinInt(S)>> \o SortInts(S \ {MinInt(S)})

RECURSIVE SortNames(_)
SortNames(S) == IF S = {} THEN <<>>
                ELSE <<MinName(S)>> \o SortNames(S \ {MinName(S)})

RECURSIVE SumPayments(_)
SumPayments(frame) == IF frame = <<>> THEN 0
                      ELSE Head(frame).payment_value + SumPayments(Tail(frame))

Column(frame, col) == {frame[i][col] : i \in DOMAIN frame}

Where(frame, col, v) == SelectSeq(frame, LAMBDA r : r[col] = v)

(***************************************************************************)
(* load_data (lines 8-16).                                                 *)
(***************************************************************************)
max_purchase_date(raw) == MaxInt(Column(raw, "order_purchase_timestamp"))

\* groupby('customer_unique_id')[...].max().reset_index(): one row per
\* customer, sorted by customer id, on a fresh index 0..K-1 (positions 1..K).
last_purchase_date(raw) ==
    LET ids == SortNames(Column(raw, "customer_unique_id"))
    IN  [k \in 1..Len(ids) |->
            [customer_unique_id |-> ids[k],
             order_purchase_timestamp |->
                 MaxInt(Column(Where(raw, "customer_unique_id", ids[k]),
                               "order_purchase_timestamp"))]]

\* Timedelta.dt.days: whole days, truncated.
dt_days(hours) == hours \div 24

\* (max_purchase_date - last_purchase_date[...]).dt.days: a Series on the
\* index of last_purchase_date.
recency_series(raw) ==
    LET lpd == last_purchase_date(raw)
    IN  [k \in 1..Len(lpd) |->
            dt_days(max_purchase_date(raw) - lpd[k].order_purchase_timestamp)]

\* df['recency'] = <Series>: the assignment aligns on index labels, so the row
\* at position i takes the value the Series holds at position i, and NaN when
\* the Series has no such label.
AssignRecency(raw, series) ==
    [i \in DOMAIN raw |->
        [customer_unique_id |-> raw[i].customer_unique_id,
         product_category |-> raw[i].product_category,
         order_purchase_timestamp |-> raw[i].order_purchase_timestamp,
         payment_value |-> raw[i].payment_value,
         recency |-> IF i \in DOMAIN series THEN Float(series[i], 1) ELSE NaN]]

load_data(raw) == AssignRecency(raw, recency_series(raw))

\* customer-segmentation.csv and customer-lifetime-value.csv as read.
SegmentsTable ==
    <<[customer_unique_id |-> "a", segment |-> "Loyal Customers",
       frequency |-> 2, total_spending |-> 10],
      [customer_unique_id |-> "b", segment |-> "At Risk Customers",
       frequency |-> 1, total_spending |-> 3]>>

ClvTable == <<[customer_unique_id |-> "a", clv |-> 10],
              [customer_unique_id |-> "b", clv |-> 3]>>

(***************************************************************************)
(* Widget defaults (lines 22-63).                                          *)
(***************************************************************************)
default_segments == <<"Loyal Customers", "Potential Loyalists">>
default_categories == {"electronics", "furniture_decor", "health_beauty"}
DefaultChurnThreshold == 180

valid_default_segments(cdf) ==
    SelectSeq(default_segments, LAMBDA seg : seg \in Column(cdf, "segment"))

DefaultSelectedSegment(cdf) ==
    LET v == valid_default_segments(cdf)
    IN  IF v # <<>> THEN {v[i] : i \in DOMAIN v}
        ELSE {"Loyal Customers", "Potential Loyalists"}

\* st.date_input shows the dates of the first and the last purchase.
date_of(ts) == ts \div 24
DefaultDateRange(d) ==
    <<date_of(MinInt(Column(d, "order_purchase_timestamp"))),
      date_of(MaxInt(Column(d, "order_purchase_timestamp")))>>

(***************************************************************************)
(* Filter Data Dynamically (lines 66-69).                                  *)
(***************************************************************************)
\* pd.to_datetime(<date>): the date at 00:00.
to_datetime(d) == d * 24

\* The upper bound left out of the range.
FilterByDateExclusive(frame, dr) ==
    SelectSeq(frame, LAMBDA r :
        /\ r.order_purchase_timestamp >= to_datetime(dr[1])
        /\ r.order_purchase_timestamp < to_datetime(dr[2]))

\* The upper bound taken from the frame itself, the latest row left out.
FilterByDateBeforeLast(frame, dr) ==
    SelectSeq(frame, LAMBDA r :
        /\ r.order_purchase_timestamp >= to_datetime(dr[1])
        /\ r.order_purchase_timestamp < MaxInt(Column(frame, "order_purchase_timestamp")))

\* df[(ts >= to_datetime(date_range[0])) & (ts <= to_datetime(date_range[1]))]
FilterByDate(frame, dr) ==
    SelectSeq(frame, LAMBDA r :
        /\ r.order_purchase_timestamp >= to_datetime(dr[1])
        /\ r.order_purchase_timestamp <= to_datetime(dr[2]))

\* filtered_df[filtered_df["product_category"].isin(product_category)]
FilterByCategory(frame, cats) ==
    SelectSeq(frame, LAMBDA r : r.product_category \in cats)

FilterOrders(frame, dr, cats) == FilterByCategory(FilterByDate(frame, dr), cats)

\* customer_df[customer_df["segment"].isin(selected_segment)]
FilterSegments(cdf, segs) == SelectSeq(cdf, LAMBDA r : r.segment \in segs)

(***************************************************************************)
(* Dynamic Key Metrics (lines 72-75).                                      *)
(***************************************************************************)
nunique(frame, col) == Cardinality(Column(frame, col))

\* Series.mean(): NaN on an empty Series.
mean_payment(frame) ==
    IF Len(frame) = 0 THEN NaN ELSE Float(SumPayments(frame), Len(frame))

\* x > threshold on a float64 cell: False for NaN.
Exceeds(x, threshold) == x.kind = "float" /\ x.num > threshold * x.den

\* filtered_df[filtered_df['recency'] > churn_threshold].shape[0]
ChurnedRowCount(frame, threshold) ==
    Len(SelectSeq(frame, LAMBDA r : Exceeds(r.recency, threshold)))

\* (count / total_customers) * 100, for total_customers # 0.
ChurnRate(frame, threshold) ==
    Float(ChurnedRowCount(frame, threshold) * 100,
          nunique(frame, "customer_unique_id"))

(***************************************************************************)
(* Customer Insights tab (line 101).                                       *)
(***************************************************************************)
ChurnRisk(x, threshold) ==
    IF Exceeds(x, threshold) THEN "High Risk" ELSE "Low Risk"

WithChurnRisk(frame, threshold) ==
    [i \in DOMAIN frame |->
        [customer_unique_id |-> frame[i].customer_unique_id,
         product_category |-> frame[i].product_category,
         order_purchase_timestamp |-> frame[i].order_purchase_timestamp,
         payment_value |-> frame[i].payment_value,
         recency |-> frame[i].recency,
         churn_risk |-> ChurnRisk(frame[i].recency, threshold)]]

\* A write that would go through to the table the view was taken from.
AddChurnRiskThrough(source, view, threshold) ==
    [df |-> WithChurnRisk(source, threshold),
     filtered_df |-> WithChurnRisk(view, threshold)]

\* filtered_df["churn_risk"] = ...: boolean indexing made filtered_df a copy,
\* so the new column lands on the view and the source table stays as it was.
AddChurnRisk(source, view, threshold) ==
    [df |-> source, filtered_df |-> WithChurnRisk(view, threshold)]

(***************************************************************************)
(* Product Analysis tab (lines 111-124).                                   *)
(***************************************************************************)
CountOf(frame, cat) == Len(Where(frame, "product_category", cat))

\* Series.mode(): the most frequent values, sorted ascending.
mode(frame) ==
    LET cats == Column(frame, "product_category")
    IN  SortNames({c \in cats : \A o \in cats : CountOf(frame, c) >= CountOf(frame, o)})

\* groupby([ts.dt.date, 'product_category']).size().unstack(): sorted dates as
\* rows, sorted categories as columns, NaN where a pair has no group.
HeatmapData(frame) ==
    LET dates == SortInts({date_of(frame[i].order_purchase_timestamp) : i \in DOMAIN frame})
        cats == SortNames(Column(frame, "product_category"))
        size(d, c) == Len(SelectSeq(frame, LAMBDA r :
                          /\ date_of(r.order_purchase_timestamp) = d
                          /\ r.product_category = c))
    IN  [index |-> dates,
         columns |-> cats,
         values |-> [i \in 1..Len(dates) |-> [j \in 1..Len(cats) |->
                        IF size(dates[i], cats[j]) = 0 THEN NaN
                        ELSE Float(size(dates[i], cats[j]), 1)]]]

\* The same rows with the two categories of a frame swapped when the second
\* has the larger revenue: sorted by revenue, descending.
TreemapDataByRevenue(frame) ==
    LET cats == SortNames(Column(frame, "product_category"))
        rev(c) == SumPayments(Where(frame, "product_category", c))
        row(c) == [product_category |-> c, payment_value |-> rev(c)]
    IN  IF Len(cats) = 2 /\ rev(cats[1]) < rev(cats[2])
        THEN <<row(cats[2]), row(cats[1])>>
        ELSE [k \in 1..Len(cats) |-> row(cats[k])]

\* groupby('product_category')['payment_value'].sum().reset_index(): one row
\* per category, in the order of the sorted group keys.
TreemapData(frame) ==
    LET cats == SortNames(Column(frame, "product_category"))
    IN  [k \in 1..Len(cats) |->
            [product_category |-> cats[k],
             payment_value |-> SumPayments(Where(frame, "product_category", cats[k]))]]

UnsetHeatmap == [index |-> <<>>, columns |-> <<>>, values |-> <<>>]

(***************************************************************************)
(* One run of the script body (lines 18-129) on the loaded tables and the  *)
(* current widget values. An uncaught exception ends the run: what the     *)
(* lines after it would have bound stays unset and nothing more is drawn.  *)
(***************************************************************************)
Script(d, cdf, tb, segs, dr, cats, thr) ==
    LET fdf == FilterOrders(d, dr, cats)
        fcdf == FilterSegments(cdf, segs)
        tc == nunique(fdf, "customer_unique_id")
        base == [df |-> d,
                 filtered_df |-> fdf,
                 filtered_customer_df |-> fcdf,
                 total_customers |-> tc,
                 total_revenue |-> SumPayments(fdf),
                 avg_order_value |-> mean_payment(fdf),
                 churn_rate |-> Unset,
                 top_category |-> UnsetName,
                 heatmap_data |-> UnsetHeatmap,
                 treemap_data |-> <<>>,
                 error |-> "none"]
    IN  IF tc = 0
        THEN [base EXCEPT !.error = "ZeroDivisionError"]
        ELSE LET m == [base EXCEPT !.churn_rate = ChurnRate(fdf, thr)]
             IN  CASE tb = "Customer Insights" ->
                        [m EXCEPT !.df = AddChurnRisk(d, fdf, thr).df,
                                  !.filtered_df = AddChurnRisk(d, fdf, thr).filtered_df]
                   [] tb = "Product Analysis" ->
                        IF mode(fdf) = <<>>
                        THEN [m EXCEPT !.error = "KeyError"]
                        ELSE [m EXCEPT !.top_category = mode(fdf)[1],
                                       !.heatmap_data = HeatmapData(fdf),
                                       !.treemap_data = TreemapData(fdf)]
                   [] OTHER -> m

Init ==
    \E raw \in Datasets :
        LET d == load_data(raw)
            out == Script(d, SegmentsTable, "Customer Insights",
                          DefaultSelectedSegment(SegmentsTable), DefaultDateRange(d),
                          default_categories, DefaultChurnThreshold)
        IN  /\ df = out.df
            /\ customer_df = SegmentsTable
            /\ clv_df = ClvTable
            /\ tab = "Customer Insights"
            /\ selected_segment = DefaultSelectedSegment(SegmentsTable)
            /\ date_range = DefaultDateRange(d)
            /\ product_category = default_categories
            /\ churn_threshold = DefaultChurnThreshold
            /\ filtered_df = out.filtered_df
            /\ filtered_customer_df = out.filtered_customer_df
            /\ total_customers = out.total_customers
            /\ total_revenue = out.total_revenue
            /\ avg_order_value = out.avg_order_value
            /\ churn_rate = out.churn_rate
            /\ top_category = out.top_category
            /\ heatmap_data = out.heatmap_data
            /\ treemap_data = out.treemap_data
            /\ error = out.error

\* A widget changed: Streamlit re-runs the script with the new widget values.
Rerun(tb, segs, dr, cats, thr) ==
    \E out \in {Script(df, customer_df, tb, segs, dr, cats, thr)} :
        /\ df' = out.df
        /\ UNCHANGED <<customer_df, clv_df>>
        /\ tab' = tb
        /\ selected_segment' = segs
        /\ date_range' = dr
        /\ product_category' = cats
        /\ churn_threshold' = thr
        /\ filtered_df' = out.filtered_df
        /\ filtered_customer_df' = out.filtered_customer_df
        /\ total_customers' = out.total_customers
        /\ total_revenue' = out.total_revenue
        /\ avg_order_value' = out.avg_order_value
        /\ churn_rate' = out.churn_rate
        /\ top_category' = out.top_category
        /\ heatmap_data' = out.heatmap_data
        /\ treemap_data' = out.treemap_data
        /\ error' = out.error

SwitchTab ==
    \E tb \in Tabs \ {tab} :
        Rerun(tb, selected_segment, date_range, product_category, churn_threshold)

SelectSegments ==
    \E segs \in SegmentSelections \ {selected_segment} :
        Rerun(tab, segs, date_range, product_category, churn_threshold)

SelectDateRange ==
    \E dr \in DateRanges \ {date_range} :
        Rerun(tab, selected_segment, dr, product_category, churn_threshold)

SelectCategories ==
    \E cats \in CategorySelections \ {product_category} :
        Rerun(tab, selected_segment, date_range, cats, churn_threshold)

SetChurnThreshold ==
    \E thr \in ThresholdChoices \ {churn_threshold} :
        Rerun(tab, selected_segment, date_range, product_category, thr)

Next ==
    \/ SwitchTab
    \/ SelectSegments
    \/ SelectDateRange
    \/ SelectCategories
    \/ SetChurnThreshold

Spec == Init /\ [][Next]_vars

(***************************************************************************)
(* What the properties are stated in.                                      *)
(***************************************************************************)
\* The columns load_data returns, without what a tab added to the view.
OrderColumns(r) ==
    [customer_unique_id |-> r.customer_unique_id,
     product_category |-> r.product_category,
     order_purchase_timestamp |-> r.order_purchase_timestamp,
     payment_value |-> r.payment_value,
     recency |-> r.recency]

ViewRows == [i \in DOMAIN filtered_df |-> OrderColumns(filtered_df[i])]

ViewCustomers == Column(filtered_df, "customer_unique_id")
ViewCategories == Column(filtered_df, "product_category")
ViewDates == {date_of(filtered_df[i].order_purchase_timestamp) : i \in DOMAIN filtered_df}

\* Whole days from the latest purchase of customer c to the latest purchase of all.
CustomerRecency(c) ==
    LET all == Column(df, "order_purchase_timestamp")
        own == {df[i].order_purchase_timestamp :
                    i \in {j \in DOMAIN df : df[j].customer_unique_id = c}}
    IN  (MaxInt(all) - MaxInt(own)) \div 24

OrdersOn(d, c) ==
    Cardinality({i \in DOMAIN filtered_df :
        /\ date_of(filtered_df[i].order_purchase_timestamp) = d
        /\ filtered_df[i].product_category = c})

RevenueOf(c) ==
    SumPayments(SelectSeq(filtered_df, LAMBDA r : r.product_category = c))

IsFloat(x, n) == x.kind = "float" /\ x.num = n * x.den

RECURSIVE SumCells(_)
SumCells(cells) ==
    IF cells = <<>> THEN 0
    ELSE (IF Head(cells).kind = "float" THEN Head(cells).num ELSE 0) + SumCells(Tail(cells))

(***************************************************************************)
(* C1: whenever the filtered orders view holds no customer, churn_rate is  *)
(* 0 and the run ends without an exception.                                *)
(***************************************************************************)
C1_ChurnRateZeroWithoutCustomers ==
    total_customers = 0 => (error = "none" /\ IsFloat(churn_rate, 0))

(***************************************************************************)
(* C2: after load_data every order row carries its own customer's recency: *)
(* a whole, non-negative number of days, never null, the same on all rows  *)
(* of one customer.                                                        *)
(***************************************************************************)
C2_RecencyOfOwnCustomer ==
    \A i \in DOMAIN df :
        /\ df[i].recency.kind = "float"
        /\ df[i].recency.den = 1
        /\ df[i].recency.num >= 0
        /\ df[i].recency.num = CustomerRecency(df[i].customer_unique_id)

(***************************************************************************)
(* C3: avg_order_value is 0 on an empty view, and total_revenue divided by *)
(* the number of rows of the view otherwise.                               *)
(***************************************************************************)
C3_AvgOrderValue ==
    /\ avg_order_value.kind = "float"
    /\ IF filtered_df = <<>>
       THEN avg_order_value.num = 0
       ELSE avg_order_value.num * Len(filtered_df) = total_revenue * avg_order_value.den

(***************************************************************************)
(* C4: on the Product Analysis tab top_category is the most frequent       *)
(* category of the view, the alphabetically lowest among the most          *)
(* frequent; on an empty view it stays undefined and nothing is raised.    *)
(***************************************************************************)
C4_TopCategory ==
    tab = "Product Analysis" =>
        /\ error = "none"
        /\ IF filtered_df = <<>>
           THEN top_category = UnsetName
           ELSE /\ top_category \in ViewCategories
                /\ \A c \in ViewCategories :
                      LET n(k) == Cardinality({i \in DOMAIN filtered_df :
                                      filtered_df[i].product_category = k})
                      IN  \/ n(top_category) > n(c)
                          \/ n(top_category) = n(c) /\ Rank(top_category) <= Rank(c)

(***************************************************************************)
(* C5: no re-run changes the loaded orders, segments and CLV tables: no    *)
(* row or column is added, removed or modified, churn_risk is written to   *)
(* the view only, and every recency stays what load_data made it.          *)
(***************************************************************************)
C5_LoadedTablesUnchanged ==
    [][df' = df /\ customer_df' = customer_df /\ clv_df' = clv_df]_vars

C5_Witness ==
    /\ tab = "Customer Insights"
    /\ error = "none"
    /\ product_category = {"electronics"}
    /\ \E i \in DOMAIN filtered_df : filtered_df[i].churn_risk = "High Risk"
    /\ \A i \in DOMAIN df : "churn_risk" \notin DOMAIN df[i]

C7_ChurnRateIsShareOfCustomers ==
    (error = "none" /\ filtered_df # <<>>) =>
        /\ churn_rate.kind = "float"
        /\ churn_rate.num * Cardinality(ViewCustomers) =
              100 * Cardinality({c \in ViewCustomers : CustomerRecency(c) > churn_threshold})
                  * churn_rate.den
        /\ 0 <= churn_rate.num
        /\ churn_rate.num <= 100 * churn_rate.den

(***************************************************************************)
(* C8: filtering the views a run produced once more, with the same         *)
(* selection, gives the same orders view and the same segments view.       *)
(***************************************************************************)
C8_FilterIdempotent ==
    /\ FilterOrders(filtered_df, date_range, product_category) = filtered_df
    /\ FilterSegments(filtered_customer_df, selected_segment) = filtered_customer_df

C8_Witness ==
    /\ Len(filtered_df) = 1
    /\ Len(df) = MaxRows
    /\ date_range = <<0, 200>>
    /\ Len(filtered_customer_df) = 1

C10_HeatmapCounts ==
    (tab = "Product Analysis" /\ error = "none") =>
        LET grid == heatmap_data.values
            dates == heatmap_data.index
            cats == heatmap_data.columns
        IN  /\ dates = SortInts(ViewDates)
            /\ cats = SortNames(ViewCategories)
            /\ Len(grid) = Cardinality(ViewDates)
            /\ \A i \in DOMAIN grid :
                  /\ Len(grid[i]) = Cardinality(ViewCategories)
                  /\ \A j \in DOMAIN grid[i] : IsFloat(grid[i][j], OrdersOn(dates[i], cats[j]))
                  /\ SumCells(grid[i]) =
                        Cardinality({r \in DOMAIN filtered_df :
                            date_of(filtered_df[r].order_purchase_timestamp) = dates[i]})
            /\ \A j \in DOMAIN cats :
                  SumCells([i \in DOMAIN grid |-> grid[i][j]]) =
                      Cardinality({r \in DOMAIN filtered_df :
                          filtered_df[r].product_category = cats[j]})

====
